---- MODULE Spec2Model ----
(***************************************************************************)
(* A model of the fonttypes variation model (src/src/variationmodel.ts)     *)
(* and of the designspace functions (src/src/designspaces.ts).             *)
(*                                                                         *)
(* JavaScript values are triples <<kind, n, d>>.  A finite number is the   *)
(* exact rational n/d in lowest terms with d > 0; the other kinds are      *)
(* undefined, null and NaN.  Arithmetic is exact.  The coordinates of the  *)
(* master pools, supports and query locations are multiples of 1/4, on     *)
(* which the differences that the code forms are exact in IEEE-754         *)
(* doubles as well; 0.55 and 0.66 of the sorting test stand as 11/20 and   *)
(* 33/50.                                                                  *)
(*                                                                         *)
(* A JavaScript object with string keys (a NormalizedLocation, a Support)  *)
(* is a sequence of entries in insertion order, because Object.keys,       *)
(* Object.entries, for-in and JSON.stringify all observe that order.       *)
(***************************************************************************)
EXTENDS Integers, Sequences, FiniteSets, TLC

----------------------------------------------------------------------------
(* Numbers *)

Abs(x) == IF x < 0 THEN -x ELSE x

RECURSIVE Gcd(_, _)
Gcd(a, b) == IF b = 0 THEN a ELSE Gcd(b, a % b)

Undefined == <<"undefined", 0, 1>>
Null == <<"null", 0, 1>>
NaN == <<"NaN", 0, 1>>

\* The rational n/d (d # 0) in lowest terms.
Num(n, d) ==
    LET g == Gcd(Abs(n), Abs(d))
        s == IF d < 0 THEN -1 ELSE 1
    IN  <<"num", (s * n) \div g, (s * d) \div g>>

Number(n) == <<"num", n, 1>>
Zero == Number(0)
One == Number(1)

IsNum(a) == a[1] = "num"

\* a - b, a * b, a / b on JavaScript values: an operand that is not a
\* number makes the result NaN (undefined - x, undefined * x).
Sub(a, b) ==
    IF IsNum(a) /\ IsNum(b)
    THEN Num(a[2] * b[3] - b[2] * a[3], a[3] * b[3]) ELSE NaN

Add(a, b) ==
    IF IsNum(a) /\ IsNum(b)
    THEN Num(a[2] * b[3] + b[2] * a[3], a[3] * b[3]) ELSE NaN

Mul(a, b) ==
    IF IsNum(a) /\ IsNum(b)
    THEN Num(a[2] * b[2], a[3] * b[3]) ELSE NaN

\* x / 0 is an infinity (or NaN for 0 / 0) in JavaScript.  No quotient of
\* the model has a zero divisor; the case is mapped to NaN.
Div(a, b) ==
    IF IsNum(a) /\ IsNum(b) /\ b[2] # 0
    THEN Num(a[2] * b[3], a[3] * b[2]) ELSE NaN

\* a < b, a <= b, a == b on JavaScript values: false when an operand is
\* undefined or NaN.
Lt(a, b) == IsNum(a) /\ IsNum(b) /\ a[2] * b[3] < b[2] * a[3]
Le(a, b) == IsNum(a) /\ IsNum(b) /\ a[2] * b[3] <= b[2] * a[3]
Eq(a, b) == IsNum(a) /\ IsNum(b) /\ a[2] = b[2] /\ a[3] = b[3]

\* ToBoolean: 0, NaN, undefined and null are falsy.
Truthy(a) == IsNum(a) /\ a[2] # 0

\* Math.min, Math.max, Math.abs on numbers.
Min(a, b) == IF Lt(b, a) THEN b ELSE a
Max(a, b) == IF Lt(a, b) THEN b ELSE a
MathAbs(a) == IF IsNum(a) THEN <<"num", Abs(a[2]), a[3]>> ELSE NaN

----------------------------------------------------------------------------
(* Objects keyed by axis tag *)

\* The axis tags of the model, in the order of JavaScript string comparison.
Tags == <<"wdth", "wght">>

TagIndex(tag) == CHOOSE i \in 1..Len(Tags) : Tags[i] = tag

\* axisA < axisB on strings.
TagLt(a, b) == TagIndex(a) < TagIndex(b)

\* tag in obj
HasKey(obj, tag) == \E i \in 1..Len(obj) : obj[i].tag = tag

KeyPos(obj, tag) == CHOOSE i \in 1..Len(obj) : obj[i].tag = tag

\* location[tag]
Get(location, tag) ==
    IF HasKey(location, tag) THEN location[KeyPos(location, tag)].val
    ELSE Undefined

\* x || 0
OrZero(x) == IF Truthy(x) THEN x ELSE Zero

----------------------------------------------------------------------------
(* supportScalar *)

\* supportScalarLoop without the test "v <= lower || upper <= v".
RECURSIVE supportScalarLoopUnclipped(_, _, _, _)
supportScalarLoopUnclipped(location, support, i, scalar) ==
    IF i > Len(support) THEN scalar
    ELSE
    LET lower == support[i].lower
        peak == support[i].peak
        upper == support[i].upper
        v == OrZero(Get(location, support[i].tag))
        continue == supportScalarLoopUnclipped(location, support, i + 1, scalar)
    IN  IF Eq(peak, Zero) THEN continue
        ELSE IF Lt(peak, lower) \/ Lt(upper, peak) THEN continue
        ELSE IF Lt(lower, Zero) /\ Lt(Zero, upper) THEN continue
        ELSE IF Eq(v, peak) THEN continue
        ELSE IF Lt(v, peak)
             THEN supportScalarLoopUnclipped(location, support, i + 1,
                      Mul(scalar, Div(Sub(v, lower), Sub(peak, lower))))
             ELSE supportScalarLoopUnclipped(location, support, i + 1,
                      Mul(scalar, Div(Sub(v, upper), Sub(peak, upper))))

\* The loop of supportScalar from entry i of the support on, with the
\* product accumulated so far.
RECURSIVE supportScalarLoop(_, _, _, _)
supportScalarLoop(location, support, i, scalar) ==
    IF i > Len(support) THEN scalar
    ELSE
    LET lower == support[i].lower
        peak == support[i].peak
        upper == support[i].upper
        v == OrZero(Get(location, support[i].tag))
        continue == supportScalarLoop(location, support, i + 1, scalar)
    IN  IF Eq(peak, Zero) THEN continue
        ELSE IF Lt(peak, lower) \/ Lt(upper, peak) THEN continue
        ELSE IF Lt(lower, Zero) /\ Lt(Zero, upper) THEN continue
        ELSE IF Eq(v, peak) THEN continue
        ELSE IF Le(v, lower) \/ Le(upper, v) THEN Zero
        ELSE IF Lt(v, peak)
             THEN supportScalarLoop(location, support, i + 1,
                      Mul(scalar, Div(Sub(v, lower), Sub(peak, lower))))
             ELSE supportScalarLoop(location, support, i + 1,
                      Mul(scalar, Div(Sub(v, upper), Sub(peak, upper))))

supportScalar(location, support) == supportScalarLoop(location, support, 1, One)

----------------------------------------------------------------------------
(* Arrays: JavaScript indices start at 0; a read outside the array is
   undefined. *)

At(arr, ix) == IF ix \in 0..(Len(arr) - 1) THEN arr[ix + 1] ELSE Undefined

\* arr.indexOf(x): the first index holding x, or -1.
IndexOf(arr, x) ==
    IF \E i \in 1..Len(arr) : arr[i] = x
    THEN (CHOOSE i \in 1..Len(arr) :
              arr[i] = x /\ \A k \in 1..(i - 1) : arr[k] # x) - 1
    ELSE -1

\* arr.includes(x)
Includes(arr, x) == \E i \in 1..Len(arr) : arr[i] = x

\* JSON.stringify of a location: the entries in insertion order, each key
\* with its number.  Entries with value 0 are printed like any other, and
\* two objects with the same entries in a different order print differently.
JSONstringify(loc) == [i \in 1..Len(loc) |-> <<loc[i].tag, loc[i].val>>]

----------------------------------------------------------------------------
(* VariationModel: canonical sort of the master locations *)

\* The copy of a location without its entries of value 0 (constructor,
\* the filter/reduce pushed on loc2).
Sparsify(loc) == SelectSeq(loc, LAMBDA e : ~Eq(e.val, Zero))

\* axisPoints as the set of pairs <<axis, value>> with value in
\* axisPoints[axis].
axisPointsOf(locs) ==
    UNION { {<<locs[i][1].tag, Zero>>, <<locs[i][1].tag, locs[i][1].val>>} :
              i \in {k \in 1..Len(locs) : Len(locs[k]) = 1} }

sign(v) == IF Lt(v, Zero) THEN -1 ELSE IF Lt(Zero, v) THEN 1 ELSE 0

\* Object.keys(loc).sort()
SortedKeys(loc) == SelectSeq(Tags, LAMBDA t : HasKey(loc, t))

\* axisOrder.filter(axis in loc) followed by the sorted keys of loc that
\* axisOrder does not include.
orderedAxesOf(axisOrder, loc) ==
    SelectSeq(axisOrder, LAMBDA axis : HasKey(loc, axis))
        \o SelectSeq(SortedKeys(loc), LAMBDA axis : ~Includes(axisOrder, axis))

onPointAxesOf(axisPoints, loc) ==
    SelectSeq(loc, LAMBDA e : <<e.tag, e.val>> \in axisPoints)

axisOrdersOf(axisOrder, orderedAxes) ==
    [i \in 1..Len(orderedAxes) |->
        IF Includes(axisOrder, orderedAxes[i])
        THEN IndexOf(axisOrder, orderedAxes[i]) ELSE 65536]

\* The first position up to n at which s and t differ, or 0.
FirstDiff(s, t, n) ==
    IF \E i \in 1..n : s[i] # t[i]
    THEN CHOOSE i \in 1..n : s[i] # t[i] /\ \A k \in 1..(i - 1) : s[k] = t[k]
    ELSE 0

IntMin(a, b) == IF a < b THEN a ELSE b

\* The last loop of sortFunc: by sign and absolute value, axis by axis.
RECURSIVE signAbsCompare(_, _, _, _)
signAbsCompare(orderedAxes_a, loc_a, loc_b, i) ==
    IF i > Len(orderedAxes_a) THEN Zero
    ELSE
    LET axis == orderedAxes_a[i]
        sign_a == sign(Get(loc_a, axis))
        sign_b == sign(Get(loc_b, axis))
        abs_a == MathAbs(Get(loc_a, axis))
        abs_b == MathAbs(Get(loc_b, axis))
    IN  IF sign_a # sign_b THEN Number(sign_a - sign_b)
        ELSE IF ~Eq(abs_a, abs_b) THEN Sub(abs_a, abs_b)
        ELSE signAbsCompare(orderedAxes_a, loc_a, loc_b, i + 1)

\* sortFunc that compares the number of axes only.
sortFuncRankOnly(axisPoints, axisOrder, loc_a, loc_b) ==
    Number(Len(loc_a) - Len(loc_b))

\* sortFunc with the number of on-point axes compared ascending.
sortFuncOnPointAscending(axisPoints, axisOrder, loc_a, loc_b) ==
    LET rank_a == Len(loc_a)
        rank_b == Len(loc_b)
        onPointAxes_a == onPointAxesOf(axisPoints, loc_a)
        onPointAxes_b == onPointAxesOf(axisPoints, loc_b)
        orderedAxes_a == orderedAxesOf(axisOrder, loc_a)
        orderedAxes_b == orderedAxesOf(axisOrder, loc_b)
        axisOrders_a == axisOrdersOf(axisOrder, orderedAxes_a)
        axisOrders_b == axisOrdersOf(axisOrder, orderedAxes_b)
        minLen == IntMin(Len(orderedAxes_a), Len(orderedAxes_b))
        d1 == FirstDiff(axisOrders_a, axisOrders_b,
                        IntMin(Len(axisOrders_a), Len(axisOrders_b)))
        d2 == FirstDiff(orderedAxes_a, orderedAxes_b, minLen)
    IN  IF rank_a # rank_b THEN Number(rank_a - rank_b)
        ELSE IF Len(onPointAxes_a) # Len(onPointAxes_b)
             THEN Number(Len(onPointAxes_a) - Len(onPointAxes_b))
        ELSE IF d1 # 0 THEN Number(axisOrders_a[d1] - axisOrders_b[d1])
        ELSE IF d2 # 0
             THEN (IF TagLt(orderedAxes_a[d2], orderedAxes_b[d2])
                   THEN Number(-1) ELSE Number(1))
        ELSE IF Len(orderedAxes_a) # Len(orderedAxes_b)
             THEN Number(Len(orderedAxes_a) - Len(orderedAxes_b))
        ELSE signAbsCompare(orderedAxes_a, loc_a, loc_b, 1)

\* The comparator returned by getMasterLocationsSortKeyFunc.
sortFunc(axisPoints, axisOrder, loc_a, loc_b) ==
    LET rank_a == Len(loc_a)
        rank_b == Len(loc_b)
        onPointAxes_a == onPointAxesOf(axisPoints, loc_a)
        onPointAxes_b == onPointAxesOf(axisPoints, loc_b)
        orderedAxes_a == orderedAxesOf(axisOrder, loc_a)
        orderedAxes_b == orderedAxesOf(axisOrder, loc_b)
        axisOrders_a == axisOrdersOf(axisOrder, orderedAxes_a)
        axisOrders_b == axisOrdersOf(axisOrder, orderedAxes_b)
        minLen == IntMin(Len(orderedAxes_a), Len(orderedAxes_b))
        d1 == FirstDiff(axisOrders_a, axisOrders_b,
                        IntMin(Len(axisOrders_a), Len(axisOrders_b)))
        d2 == FirstDiff(orderedAxes_a, orderedAxes_b, minLen)
    IN  IF rank_a # rank_b THEN Number(rank_a - rank_b)
        ELSE IF Len(onPointAxes_a) # Len(onPointAxes_b)
             THEN Number(Len(onPointAxes_b) - Len(onPointAxes_a))
        ELSE IF d1 # 0 THEN Number(axisOrders_a[d1] - axisOrders_b[d1])
        ELSE IF d2 # 0
             THEN (IF TagLt(orderedAxes_a[d2], orderedAxes_b[d2])
                   THEN Number(-1) ELSE Number(1))
        ELSE IF Len(orderedAxes_a) # Len(orderedAxes_b)
             THEN Number(Len(orderedAxes_a) - Len(orderedAxes_b))
        ELSE signAbsCompare(orderedAxes_a, loc_a, loc_b, 1)

\* Array.prototype.sort is stable: an element goes after every element that
\* does not compare greater than it.
RECURSIVE sortInsert(_, _, _, _)
sortInsert(axisPoints, axisOrder, sorted, x) ==
    IF sorted = <<>> THEN <<x>>
    ELSE IF Lt(sortFunc(axisPoints, axisOrder, x, sorted[Len(sorted)]), Zero)
         THEN Append(sortInsert(axisPoints, axisOrder,
                                SubSeq(sorted, 1, Len(sorted) - 1), x),
                     sorted[Len(sorted)])
         ELSE Append(sorted, x)

RECURSIVE sortUpTo(_, _, _, _)
sortUpTo(axisPoints, axisOrder, locs, n) ==
    IF n = 0 THEN <<>>
    ELSE sortInsert(axisPoints, axisOrder,
                    sortUpTo(axisPoints, axisOrder, locs, n - 1), locs[n])

\* loc2.sort(keyFunc)
sortLocations(loc2, axisOrder) ==
    sortUpTo(axisPointsOf(loc2), axisOrder, loc2, Len(loc2))

----------------------------------------------------------------------------
(* VariationModel: master supports *)

\* obj[tag] = entry: an existing key keeps its place, a new key goes last.
Put(obj, entry) ==
    IF HasKey(obj, entry.tag)
    THEN [obj EXCEPT ![KeyPos(obj, entry.tag)] = entry]
    ELSE Append(obj, entry)

\* The values that the locations give to axis k.
ValuesOn(locations, k) ==
    { Get(locations[i], k) : i \in {n \in 1..Len(locations) : HasKey(locations[n], k)} }

minV(locations, k) ==
    CHOOSE m \in ValuesOn(locations, k) : \A x \in ValuesOn(locations, k) : Le(m, x)

maxV(locations, k) ==
    CHOOSE m \in ValuesOn(locations, k) : \A x \in ValuesOn(locations, k) : Le(x, m)

\* locationsToRegions with every interval reaching from the least to the
\* greatest value of its axis.
locationsToRegionsFullRange(locations) ==
    [i \in 1..Len(locations) |->
        [n \in 1..Len(locations[i]) |->
            LET axis == locations[i][n].tag
                locV == locations[i][n].val
            IN  [tag |-> axis, lower |-> minV(locations, axis),
                 peak |-> locV, upper |-> maxV(locations, axis)]]]

locationsToRegions(locations) ==
    [i \in 1..Len(locations) |->
        [n \in 1..Len(locations[i]) |->
            LET axis == locations[i][n].tag
                locV == locations[i][n].val
            IN  IF Lt(Zero, locV)
                THEN [tag |-> axis, lower |-> Zero, peak |-> locV,
                      upper |-> maxV(locations, axis)]
                ELSE [tag |-> axis, lower |-> minV(locations, axis),
                      peak |-> locV, upper |-> Zero]]]

isSuperset(set, subset) == \A elem \in subset : elem \in set

KeySet(obj) == { obj[i].tag : i \in 1..Len(obj) }

\* relevant without the alternative "prev_region[axis][1] == peak".
relevantStrictlyInside(region, prev_region) ==
    \A n \in 1..Len(region) :
        LET axis == region[n].tag
        IN  /\ HasKey(prev_region, axis)
            /\ LET prevPeak == prev_region[KeyPos(prev_region, axis)].peak
               IN  Lt(region[n].lower, prevPeak) /\ Lt(prevPeak, region[n].upper)

\* The loop that sets "relevant" in computeMasterSupports.
relevant(region, prev_region) ==
    \A n \in 1..Len(region) :
        LET axis == region[n].tag
        IN  /\ HasKey(prev_region, axis)
            /\ LET prevPeak == prev_region[KeyPos(prev_region, axis)].peak
               IN  \/ Eq(prevPeak, region[n].peak)
                   \/ Lt(region[n].lower, prevPeak) /\ Lt(prevPeak, region[n].upper)

\* splitLoop that keeps the axes collected so far when a greater ratio
\* turns up.
RECURSIVE splitLoopKeepAll(_, _, _, _, _)
splitLoopKeepAll(region, prev_region, k, bestAxes, bestRatio) ==
    IF k > Len(prev_region) THEN bestAxes
    ELSE
    LET axis == prev_region[k].tag
        val == prev_region[k].peak
        cur == region[KeyPos(region, axis)]
        lower == cur.lower
        locV == cur.peak
        upper == cur.upper
        newLower == IF Lt(val, locV) THEN val ELSE lower
        newUpper == IF Lt(val, locV) THEN upper ELSE val
        ratio == IF Lt(val, locV)
                 THEN Div(Sub(val, locV), Sub(lower, locV))
                 ELSE Div(Sub(val, locV), Sub(upper, locV))
        bestRatio1 == IF Lt(bestRatio, ratio) THEN ratio ELSE bestRatio
        bestAxes2 == IF Eq(ratio, bestRatio1)
                     THEN Put(bestAxes, [tag |-> axis, lower |-> newLower,
                                         peak |-> locV, upper |-> newUpper])
                     ELSE bestAxes
    IN  IF Lt(val, locV) \/ Lt(locV, val)
        THEN splitLoopKeepAll(region, prev_region, k + 1, bestAxes2, bestRatio1)
        ELSE splitLoopKeepAll(region, prev_region, k + 1, bestAxes, bestRatio)

\* The loop "for (axis in prev_region)" from entry k on, with bestAxes and
\* bestRatio as they stand; yields the final bestAxes.
RECURSIVE splitLoop(_, _, _, _, _)
splitLoop(region, prev_region, k, bestAxes, bestRatio) ==
    IF k > Len(prev_region) THEN bestAxes
    ELSE
    LET axis == prev_region[k].tag
        val == prev_region[k].peak
        cur == region[KeyPos(region, axis)]
        lower == cur.lower
        locV == cur.peak
        upper == cur.upper
        newLower == IF Lt(val, locV) THEN val ELSE lower
        newUpper == IF Lt(val, locV) THEN upper ELSE val
        ratio == IF Lt(val, locV)
                 THEN Div(Sub(val, locV), Sub(lower, locV))
                 ELSE Div(Sub(val, locV), Sub(upper, locV))
        better == Lt(bestRatio, ratio)
        bestAxes1 == IF better THEN <<>> ELSE bestAxes
        bestRatio1 == IF better THEN ratio ELSE bestRatio
        bestAxes2 == IF Eq(ratio, bestRatio1)
                     THEN Put(bestAxes1, [tag |-> axis, lower |-> newLower,
                                          peak |-> locV, upper |-> newUpper])
                     ELSE bestAxes1
    IN  IF Lt(val, locV) \/ Lt(locV, val)
        THEN splitLoop(region, prev_region, k + 1, bestAxes2, bestRatio1)
        ELSE splitLoop(region, prev_region, k + 1, bestAxes, bestRatio)

\* region[axis] = bestAxes[axis] for every axis in bestAxes.
RECURSIVE putAll(_, _, _)
putAll(region, bestAxes, k) ==
    IF k > Len(bestAxes) THEN region
    ELSE putAll(Put(region, bestAxes[k]), bestAxes, k + 1)

\* One pass of the loop over j: region refined against prev_region.
boxSplit(region, prev_region) ==
    IF ~isSuperset(KeySet(region), KeySet(prev_region)) THEN region
    ELSE IF ~relevant(region, prev_region) THEN region
    ELSE putAll(region, splitLoop(region, prev_region, 1, <<>>, Number(-1)), 1)

\* The loop over j < i for one region; prevs holds regions[0..i-1], which
\* the earlier iterations have refined in place.
RECURSIVE refineLoop(_, _, _)
refineLoop(region, prevs, j) ==
    IF j > Len(prevs) THEN region
    ELSE refineLoop(boxSplit(region, prevs[j]), prevs, j + 1)

RECURSIVE supportsUpTo(_, _)
supportsUpTo(regions, n) ==
    IF n = 0 THEN <<>>
    ELSE LET prevs == supportsUpTo(regions, n - 1)
         IN  Append(prevs, refineLoop(regions[n], prevs, 1))

computeMasterSupports(locations) ==
    LET regions == locationsToRegions(locations)
    IN  supportsUpTo(regions, Len(regions))

\* computeDeltaWeights with the inner loop over slice(0, i + 1).
computeDeltaWeightsInclusive(locations, supports) ==
    [i \in 1..Len(locations) |->
        SelectSeq([j \in 1..i |->
                      [j |-> j - 1, w |-> supportScalar(locations[i], supports[j])]],
                  LAMBDA e : Truthy(e.w))]

\* Row i of deltaWeights is the object {j: scalar} over the j < i with a
\* truthy scalar; integer keys enumerate in ascending order.
computeDeltaWeights(locations, supports) ==
    [i \in 1..Len(locations) |->
        SelectSeq([j \in 1..(i - 1) |->
                      [j |-> j - 1, w |-> supportScalar(locations[i], supports[j])]],
                  LAMBDA e : Truthy(e.w))]

----------------------------------------------------------------------------
(* VariationModel: constructor *)

\* this.mapping
mappingOf(origLocations, locations) ==
    [i \in 1..Len(origLocations) |->
        IndexOf([k \in 1..Len(locations) |-> JSONstringify(locations[k])],
                JSONstringify(origLocations[i]))]

\* this.reverseMapping
reverseMappingOf(origLocations, locations) ==
    [k \in 1..Len(locations) |->
        IndexOf([i \in 1..Len(origLocations) |-> JSONstringify(origLocations[i])],
                JSONstringify(locations[k]))]

\* new VariationModel(locations, axisOrder): the fields of the new object.
\* The constructor has no throw statement.
VariationModel(locs, order) ==
    LET loc2 == [i \in 1..Len(locs) |-> Sparsify(locs[i])]
        sorted == sortLocations(loc2, order)
        sup == computeMasterSupports(sorted)
    IN  [origLocations |-> locs,
         axisOrder |-> order,
         locations |-> sorted,
         mapping |-> mappingOf(locs, sorted),
         reverseMapping |-> reverseMappingOf(locs, sorted),
         supports |-> sup,
         deltaWeights |-> computeDeltaWeights(sorted, sup),
         subModels |-> <<>>]

----------------------------------------------------------------------------
(* VariationModel: deltas, scalars, interpolation *)

\* The loop "for (var j in weights)" of getDeltas from entry k on.
RECURSIVE deltaLoop(_, _, _, _)
deltaLoop(weights, out, k, delta) ==
    IF k > Len(weights) THEN delta
    ELSE LET weight == weights[k].w
             outj == At(out, weights[k].j)
         IN  IF Eq(weight, One)
             THEN deltaLoop(weights, out, k + 1, Sub(delta, outj))
             ELSE deltaLoop(weights, out, k + 1, Sub(delta, Mul(outj, weight)))

RECURSIVE deltasUpTo(_, _, _)
deltasUpTo(m, masterValues, n) ==
    IF n = 0 THEN <<>>
    ELSE LET out == deltasUpTo(m, masterValues, n - 1)
         IN  Append(out, deltaLoop(m.deltaWeights[n], out, 1,
                                   At(masterValues, m.reverseMapping[n])))

\* console.assert reports and goes on: nothing is thrown.
getDeltas(m, masterValues) == deltasUpTo(m, masterValues, Len(m.deltaWeights))

getScalars(m, loc) ==
    [i \in 1..Len(m.supports) |-> supportScalar(loc, m.supports[i])]

\* out[j] -= out[i] * weight for the entries of row i from entry k on.
RECURSIVE rowLoop(_, _, _, _)
rowLoop(weights, out, i, k) ==
    IF k > Len(weights) THEN out
    ELSE LET j == weights[k].j
         IN  rowLoop(weights,
                     [out EXCEPT ![j + 1] = Sub(out[j + 1], Mul(out[i + 1], weights[k].w))],
                     i, k + 1)

\* The rows from i (an index from 0) down to 0.
RECURSIVE backSubstitute(_, _, _)
backSubstitute(deltaWeightRows, out, i) ==
    IF i < 0 THEN out
    ELSE backSubstitute(deltaWeightRows,
                        rowLoop(deltaWeightRows[i + 1], out, i, 1), i - 1)

getMasterScalars(m, loc) ==
    LET out == backSubstitute(m.deltaWeights, getScalars(m, loc),
                              Len(m.deltaWeights) - 1)
    IN  [n \in 1..Len(m.mapping) |-> At(out, m.mapping[n])]

\* interpolateFromValuesAndScalars with v starting at 0 in place of null.
RECURSIVE valuesLoopFromZero(_, _, _, _)
valuesLoopFromZero(values, scalars, ix, v) ==
    IF ix >= Len(values) THEN (IF v = Null THEN Zero ELSE v)
    ELSE LET scalar == At(scalars, ix)
             contribution == Mul(values[ix + 1], scalar)
         IN  IF ~Truthy(scalar) THEN valuesLoopFromZero(values, scalars, ix + 1, v)
             ELSE IF v = Null
                  THEN valuesLoopFromZero(values, scalars, ix + 1, contribution)
             ELSE valuesLoopFromZero(values, scalars, ix + 1, Add(v, contribution))

RECURSIVE valuesLoop(_, _, _, _)
valuesLoop(values, scalars, ix, v) ==
    IF ix >= Len(values) THEN v
    ELSE LET scalar == At(scalars, ix)
             contribution == Mul(values[ix + 1], scalar)
         IN  IF ~Truthy(scalar) THEN valuesLoop(values, scalars, ix + 1, v)
             ELSE IF v = Null THEN valuesLoop(values, scalars, ix + 1, contribution)
             ELSE valuesLoop(values, scalars, ix + 1, Add(v, contribution))

interpolateFromValuesAndScalars(values, scalars) == valuesLoop(values, scalars, 0, Null)

interpolateFromDeltasAndScalars(deltas, scalars) ==
    interpolateFromValuesAndScalars(deltas, scalars)

interpolateFromDeltas(m, loc, deltas) ==
    interpolateFromDeltasAndScalars(deltas, getScalars(m, loc))

interpolateFromMasters(m, loc, masterValues) ==
    interpolateFromValuesAndScalars(masterValues, getMasterScalars(m, loc))

interpolateFromMastersAndScalars(m, masterValues, scalars) ==
    interpolateFromDeltasAndScalars(getDeltas(m, masterValues), scalars)

----------------------------------------------------------------------------
(* VariationModel: submodels *)

\* someNull testing "!x" in place of "x == null": a value 0 counts as missing.
someFalsy(items) == \E i \in 1..Len(items) : ~Truthy(items[i])

\* items.some((x) => x == null)
someNull(items) == \E i \in 1..Len(items) : items[i] = Null \/ items[i] = Undefined

\* items.filter((x) => x != null)
filterNotNull(items) == SelectSeq(items, LAMBDA x : x # Null /\ x # Undefined)

\* list.filter((it, ix) => truth[ix])
subList(truth, list) ==
    LET kept == SelectSeq([i \in 1..Len(list) |-> i],
                          LAMBDA i : Truthy(At(truth, i - 1)))
    IN  [n \in 1..Len(kept) |-> list[kept[n]]]

\* Map.prototype.get with an array as key: keys are compared by identity,
\* so an entry is found only under the reference it was stored with.
MapGet(map, keyRef) ==
    IF \E n \in 1..Len(map) : map[n].keyRef = keyRef
    THEN map[CHOOSE n \in 1..Len(map) : map[n].keyRef = keyRef].value
    ELSE Undefined

\* Map.prototype.set
MapSet(map, keyRef, key, value) ==
    IF \E n \in 1..Len(map) : map[n].keyRef = keyRef
    THEN [map EXCEPT ![CHOOSE n \in 1..Len(map) : map[n].keyRef = keyRef].value = value]
    ELSE Append(map, [keyRef |-> keyRef, key |-> key, value |-> value])

\* The reference of the receiver; the arrays and objects that getSubModel
\* allocates take the references from nextRef on.
ThisRef == 0

----------------------------------------------------------------------------
(* Designspaces (src/src/designspaces.ts): an axis is a record
   [tag, min, default, max]; a break table is a sequence of pairs
   <<from, to>>.  A function that can throw returns [ret, thrown]. *)

\* piecewiseLinearMap without the clamp at the last breakpoint.
RECURSIVE segmentLoop(_, _, _)
piecewiseLinearMapOpenEnd(input, mapping) ==
    IF Len(mapping) = 0 THEN input
    ELSE IF Le(input, mapping[1][1]) THEN mapping[1][2]
    ELSE segmentLoop(input, mapping, 0)

piecewiseLinearMap(input, mapping) ==
    IF Len(mapping) = 0 THEN input
    ELSE IF Le(input, mapping[1][1]) THEN mapping[1][2]
    ELSE IF Le(mapping[Len(mapping)][1], input) THEN mapping[Len(mapping)][2]
    ELSE segmentLoop(input, mapping, 0)

\* The search for the segment that brackets input, from segment i on.
segmentLoop(input, mapping, i) ==
    IF i >= Len(mapping) - 1 THEN input
    ELSE LET x0 == mapping[i + 1][1]
             y0 == mapping[i + 1][2]
             x1 == mapping[i + 2][1]
             y1 == mapping[i + 2][2]
         IN  IF Le(x0, input) /\ Le(input, x1)
             THEN LET t == Div(Sub(input, x0), Sub(x1, x0))
                  IN  Add(y0, Mul(t, Sub(y1, y0)))
             ELSE segmentLoop(input, mapping, i + 1)

\* normalizeValue that never clamps the design value.
normalizeValueUnclamped(designValue, axis, extrapolate) ==
    LET lower == axis.min
        upper == axis.max
        default == axis.default
        v == designValue
    IN  IF ~(Le(lower, default) /\ Le(default, upper))
        THEN [ret |-> Undefined, thrown |-> "Error"]
        ELSE IF Eq(v, default) \/ Eq(lower, upper)
        THEN [ret |-> Zero, thrown |-> "none"]
        ELSE IF \/ (Lt(v, default) /\ ~Eq(lower, default))
                \/ (Lt(default, v) /\ Eq(upper, default))
        THEN [ret |-> Div(Sub(v, default), Sub(default, lower)),
              thrown |-> "none"]
        ELSE [ret |-> Div(Sub(v, default), Sub(upper, default)),
              thrown |-> "none"]

normalizeValue(designValue, axis, extrapolate) ==
    LET lower == axis.min
        upper == axis.max
        default == axis.default
        v == IF ~extrapolate THEN Max(Min(designValue, upper), lower)
             ELSE designValue
    IN  IF ~(Le(lower, default) /\ Le(default, upper))
        THEN [ret |-> Undefined, thrown |-> "Error"]
        ELSE IF Eq(v, default) \/ Eq(lower, upper)
        THEN [ret |-> Zero, thrown |-> "none"]
        ELSE IF \/ (Lt(v, default) /\ ~Eq(lower, default))
                \/ (Lt(default, v) /\ Eq(upper, default))
        THEN [ret |-> Div(Sub(v, default), Sub(default, lower)),
              thrown |-> "none"]
        ELSE [ret |-> Div(Sub(v, default), Sub(upper, default)),
              thrown |-> "none"]

\* location[tag] ?? axis.default
OrDefault(x, axis) == IF x = Undefined \/ x = Null THEN axis.default ELSE x

\* The loop of normalizeLocation over axes from position i on; result is
\* the object built so far.
RECURSIVE normalizeLoop(_, _, _, _)
normalizeLoop(location, axes, i, result) ==
    IF i > Len(axes) THEN [ret |-> result, thrown |-> "none"]
    ELSE LET axis == axes[i]
             designValue == OrDefault(Get(location, axis.tag), axis)
             r == normalizeValue(designValue, axis, FALSE)
         IN  IF r.thrown # "none" THEN [ret |-> Undefined, thrown |-> r.thrown]
             ELSE normalizeLoop(location, axes, i + 1,
                                Put(result, [tag |-> axis.tag, val |-> r.ret]))

normalizeLocation(location, axes) == normalizeLoop(location, axes, 1, <<>>)

----------------------------------------------------------------------------
(* Bounds and inputs *)

MaxMasters == 3
MaxSubModelCalls == 2

Entry(tag, n, d) == [tag |-> tag, val |-> Num(n, d)]

\* Master locations offered to the constructor: the default location, bare
\* and with an explicit zero, and locations on one and on two axes.
MasterPool ==
    { <<>>,
      <<Entry("wght", 0, 1)>>,
      <<Entry("wght", 1, 2)>>,
      <<Entry("wght", 1, 1)>>,
      <<Entry("wght", -1, 1)>>,
      <<Entry("wdth", 1, 1)>>,
      <<Entry("wght", 1, 1), Entry("wdth", 1, 1)>> }

SeqsUpTo(S, n) == UNION { [1..k -> S] : k \in 0..n }

MasterLists == SeqsUpTo(MasterPool, MaxMasters)

AxisOrders == { <<>>, <<"wght">> }

\* Locations at which the model is evaluated.
Coordinates == { Num(-1, 1), Num(-1, 2), Zero, Num(1, 2), One }

QueryLocations ==
    { <<>> } \cup
    { <<[tag |-> "wght", val |-> a], [tag |-> "wdth", val |-> b]>> :
        a \in Coordinates, b \in { Zero, Num(1, 2), One } }

MasterValues == { Number(0), Number(2) }

ValueLists == SeqsUpTo(MasterValues, MaxMasters)

\* The masters of the submodel runs, and the items handed to getSubModel:
\* one item per master, a value or null for a missing one.
MaxSubMasters == 2

SubMasterPool == { <<>>, <<Entry("wght", 1, 1)>>, <<Entry("wght", -1, 1)>> }

\* Lists of pairwise different masters.
SubMasterLists ==
    { l \in SeqsUpTo(SubMasterPool, MaxSubMasters) :
        \A i, j \in 1..Len(l) : i # j => l[i] # l[j] }

ItemLists(n) == [1..n -> MasterValues \cup { Null }]

\* The master lists of tests/variationmodel.test.ts: locationsA, locationsB,
\* locationsC and the list of the interpolation test.
TestMasterLists ==
    { << <<>>, <<Entry("wght", 1, 1)>>, <<Entry("wdth", 1, 1)>> >>,
      << <<>>, <<Entry("wght", 1, 1)>>, <<Entry("wdth", 1, 1)>>,
         <<Entry("wght", 1, 1), Entry("wdth", 1, 1)>> >>,
      << <<>>, <<Entry("wght", 1, 2)>>, <<Entry("wght", 1, 1)>>,
         <<Entry("wdth", 1, 1)>>,
         <<Entry("wght", 1, 1), Entry("wdth", 1, 1)>> >>,
      << <<>>, <<Entry("wght", 1, 1)>>, <<Entry("wdth", 1, 1)>>,
         <<Entry("wght", 1, 1), Entry("wdth", 1, 1)>>,
         <<Entry("wght", 1, 2), Entry("wdth", 1, 1)>>,
         <<Entry("wght", 1, 1), Entry("wdth", 1, 2)>> >> }

\* Scalars and scalar lists handed to interpolateFromValuesAndScalars.
ScalarValues == {Number(0), Number(1), Number(-1), Num(1, 2)}
ScalarLists == SeqsUpTo(ScalarValues, MaxMasters)

\* Arguments of supportScalar: locations inside and outside [-1, +1], and
\* supports on one and on two axes whose triples are ordered, degenerate
\* or astride 0.
ScalarLocations ==
    { <<>> } \cup
    { <<[tag |-> "wght", val |-> a]>> :
        a \in Coordinates \cup { Num(-2, 1), Num(1, 4), Num(3, 2) } } \cup
    { <<[tag |-> "wght", val |-> a], [tag |-> "wdth", val |-> b]>> :
        a \in Coordinates \cup { Num(-2, 1), Num(1, 4), Num(3, 2) },
        b \in { Num(1, 4), Num(3, 4), One } }

Triples(tag, S) ==
    { [tag |-> tag, lower |-> l, peak |-> p, upper |-> u] : l \in S, p \in S, u \in S }

ScalarSupports ==
    { <<>> } \cup
    { <<t>> : t \in Triples("wght", Coordinates) } \cup
    { <<t, u>> : t \in Triples("wght", Coordinates),
                 u \in Triples("wdth", { Zero, Num(1, 2), One }) }

\* The masters of the construction runs: lists of up to MaxBuildMasters
\* different locations on one and on two axes, among them the default
\* location bare and with an explicit zero, a location whose keys are in
\* the order wdth, wght, and the master list of the sorting test.
MaxBuildMasters == 3

BuildPool ==
    { <<>>,
      <<Entry("wght", 0, 1)>>,
      <<Entry("wght", 1, 2)>>,
      <<Entry("wght", 1, 1)>>,
      <<Entry("wght", -1, 1)>>,
      <<Entry("wdth", 1, 1)>>,
      <<Entry("wght", 1, 1), Entry("wdth", 1, 1)>>,
      <<Entry("wght", 1, 2), Entry("wdth", 1, 1)>>,
      <<Entry("wdth", 1, 2), Entry("wght", 1, 2)>>,
      <<Entry("wght", 1, 2), Entry("wdth", 1, 4)>>,
      <<Entry("wght", -1, 1), Entry("wdth", 1, 1)>> }

SortTestMasters ==
    << <<Entry("wght", 11, 20), Entry("wdth", 0, 1)>>,
       <<Entry("wght", -11, 20), Entry("wdth", 0, 1)>>,
       <<Entry("wght", -1, 1), Entry("wdth", 0, 1)>>,
       <<Entry("wght", 0, 1), Entry("wdth", 1, 1)>>,
       <<Entry("wght", 33, 50), Entry("wdth", 1, 1)>>,
       <<Entry("wght", 33, 50), Entry("wdth", 33, 50)>>,
       <<Entry("wght", 0, 1), Entry("wdth", 0, 1)>>,
       <<Entry("wght", 1, 1), Entry("wdth", 1, 1)>>,
       <<Entry("wght", 1, 1), Entry("wdth", 0, 1)>> >>

BuildMasterLists ==
    { SortTestMasters } \cup
    { l \in SeqsUpTo(BuildPool, MaxBuildMasters) :
        \A i, j \in 1..Len(l) : i # j => l[i] # l[j] }

\* The masters of the runs that exchange masters: the lists of
\* BuildMasterLists over eight locations of the pool.
OrderPool ==
    BuildPool \ { <<Entry("wght", 1, 2), Entry("wdth", 1, 1)>>,
                  <<Entry("wght", 1, 2), Entry("wdth", 1, 4)>>,
                  <<Entry("wght", -1, 1), Entry("wdth", 1, 1)>> }

OrderMasterLists ==
    { SortTestMasters } \cup
    { l \in BuildMasterLists : \A i \in 1..Len(l) : l[i] \in OrderPool }

\* Axes offered to normalizeValue: every triple over AxisBounds, also the
\* triples that are not ordered.
AxisBounds == { Number(0), Number(100), Number(400), Number(900) }

AxisRecords(tag) ==
    { [tag |-> tag, min |-> l, default |-> d, max |-> u] :
        l \in AxisBounds, d \in AxisBounds, u \in AxisBounds }

DesignValues ==
    { Number(-100), Number(0), Number(100), Number(250), Number(400),
      Number(650), Number(900), Number(1000) }

\* Axes and locations offered to normalizeLocation: the three shapes of
\* axis of the normalizeLocation test, a one-point axis and an axis whose
\* bounds are not ordered.
Axis(tag, l, d, u) ==
    [tag |-> tag, min |-> Number(l), default |-> Number(d), max |-> Number(u)]

AxisChoices(tag) ==
    { Axis(tag, 100, 400, 900), Axis(tag, 0, 0, 900), Axis(tag, 0, 900, 900),
      Axis(tag, 400, 400, 400), Axis(tag, 900, 400, 100) }

AxisLists ==
    { <<a>> : a \in AxisChoices("wght") } \cup
    { <<a, b>> : a \in AxisChoices("wght"), b \in AxisChoices("wdth") }

LocationValues == { Number(0), Number(250), Number(400), Number(1000) }

DesignLocations ==
    { <<>> } \cup
    { <<[tag |-> "wght", val |-> a]>> : a \in LocationValues } \cup
    { <<[tag |-> "wdth", val |-> b]>> : b \in LocationValues } \cup
    { <<[tag |-> "wght", val |-> a], [tag |-> "wdth", val |-> b]>> :
        a \in LocationValues, b \in LocationValues }

\* Break tables of up to MaxBreaks breakpoints, in any order of their
\* 'from' values, and the inputs mapped through them.
MaxBreaks == 3

BreakPoints ==
    { <<Number(x), Number(y)>> : x \in {0, 100, 200}, y \in {0, 10, 30} }

BreakTables == SeqsUpTo(BreakPoints, MaxBreaks)

MapInputs ==
    { Number(-50), Number(0), Number(50), Number(100), Number(150),
      Number(200), Number(250) }

\* The master locations of the README example.
ReadmeMasters ==
    << <<Entry("wght", 0, 1)>>, <<Entry("wght", -1, 1)>>, <<Entry("wght", 1, 1)>> >>

----------------------------------------------------------------------------
(* State *)

VARIABLES
    origLocations,   \* this.origLocations
    axisOrder,       \* this.axisOrder
    locations,       \* this.locations
    supports,        \* this.supports
    mapping,         \* this.mapping
    reverseMapping,  \* this.reverseMapping
    deltaWeights,    \* this.deltaWeights
    subModels,       \* this.subModels: entries [keyRef, key, value] in insertion order
    nextRef,         \* the next fresh object reference
    call,            \* the call that has just returned, with its arguments and result
    observed         \* the getSubModel results seen by the caller so far

model == <<origLocations, axisOrder, locations, supports, mapping,
           reverseMapping, deltaWeights>>

vars == <<origLocations, axisOrder, locations, supports, mapping,
          reverseMapping, deltaWeights, subModels, nextRef, call, observed>>

this ==
    [origLocations |-> origLocations, axisOrder |-> axisOrder,
     locations |-> locations, supports |-> supports, mapping |-> mapping,
     reverseMapping |-> reverseMapping, deltaWeights |-> deltaWeights,
     subModels |-> subModels]

Idle == call.op = "none"

\* The state in which new VariationModel(locs, order) has just returned.
Construct(locs, order) ==
    LET m == VariationModel(locs, order)
    IN  /\ origLocations = m.origLocations
        /\ axisOrder = m.axisOrder
        /\ locations = m.locations
        /\ supports = m.supports
        /\ mapping = m.mapping
        /\ reverseMapping = m.reverseMapping
        /\ deltaWeights = m.deltaWeights
        /\ subModels = m.subModels
        /\ nextRef = ThisRef + 1
        /\ call = [op |-> "new", locations |-> locs, axisOrder |-> order,
                   thrown |-> "none"]
        /\ observed = <<>>

Init == \E locs \in MasterLists, order \in AxisOrders : Construct(locs, order)

\* The caller takes the result and goes on to its next call.
Continue ==
    /\ ~Idle
    /\ call' = [op |-> "none"]
    /\ UNCHANGED <<model, subModels, nextRef, observed>>

\* What a read method leaves behind: the receiver and the caller's argument
\* arrays as they are when the method returns.  getDeltas pushes onto a new
\* array out; getScalars maps into a new array; getMasterScalars overwrites
\* only the array that getScalars returned to it; the interpolate methods
\* only read.

\* getDeltas writing its deltas over masterValues.
afterGetDeltasInPlace(m, masterValues) ==
    [this |-> m, args |-> <<getDeltas(m, masterValues)>>]

afterGetDeltas(m, masterValues) == [this |-> m, args |-> <<masterValues>>]

afterGetScalars(m, loc) == [this |-> m, args |-> <<loc>>]

afterGetMasterScalars(m, loc) == [this |-> m, args |-> <<loc>>]

afterInterpolateFromMasters(m, loc, masterValues) ==
    [this |-> m, args |-> <<loc, masterValues>>]

afterInterpolateFromDeltas(m, loc, deltas) ==
    [this |-> m, args |-> <<loc, deltas>>]

\* The receiver's fields become those of m.
Becomes(m) ==
    /\ origLocations' = m.origLocations
    /\ axisOrder' = m.axisOrder
    /\ locations' = m.locations
    /\ supports' = m.supports
    /\ mapping' = m.mapping
    /\ reverseMapping' = m.reverseMapping
    /\ deltaWeights' = m.deltaWeights
    /\ subModels' = m.subModels

GetDeltas ==
    /\ Idle
    /\ \E masterValues \in ValueLists :
        LET after == afterGetDeltas(this, masterValues)
        IN  /\ call' = [op |-> "getDeltas", masterValues |-> masterValues,
                        args |-> <<masterValues>>, argsAfter |-> after.args,
                        ret |-> getDeltas(this, masterValues),
                        thrown |-> "none"]
            /\ Becomes(after.this)
    /\ UNCHANGED <<nextRef, observed>>

GetScalars ==
    /\ Idle
    /\ \E loc \in QueryLocations :
        LET after == afterGetScalars(this, loc)
        IN  /\ call' = [op |-> "getScalars", loc |-> loc,
                        args |-> <<loc>>, argsAfter |-> after.args,
                        ret |-> getScalars(this, loc), thrown |-> "none"]
            /\ Becomes(after.this)
    /\ UNCHANGED <<nextRef, observed>>

GetMasterScalars ==
    /\ Idle
    /\ \E loc \in QueryLocations :
        LET after == afterGetMasterScalars(this, loc)
        IN  /\ call' = [op |-> "getMasterScalars", loc |-> loc,
                        args |-> <<loc>>, argsAfter |-> after.args,
                        ret |-> getMasterScalars(this, loc), thrown |-> "none"]
            /\ Becomes(after.this)
    /\ UNCHANGED <<nextRef, observed>>

\* interpolateFromMasters at one of the model's own master locations.
InterpolateFromMasters ==
    /\ Idle
    /\ \E k \in 1..Len(locations), masterValues \in ValueLists :
        LET after == afterInterpolateFromMasters(this, locations[k], masterValues)
        IN  /\ call' = [op |-> "interpolateFromMasters", loc |-> locations[k],
                        masterValues |-> masterValues,
                        args |-> <<locations[k], masterValues>>,
                        argsAfter |-> after.args,
                        ret |-> interpolateFromMasters(this, locations[k],
                                                       masterValues),
                        thrown |-> "none"]
            /\ Becomes(after.this)
    /\ UNCHANGED <<nextRef, observed>>

\* The caller interpolates one vector of master values at loc along both
\* paths: interpolateFromMasters(loc, masterValues), and getDeltas followed
\* by interpolateFromDeltas.
InterpolateBothPaths ==
    /\ Idle
    /\ \E loc \in QueryLocations,
          masterValues \in {v \in ValueLists : Len(v) = Len(origLocations)} :
        LET after1 == afterInterpolateFromMasters(this, loc, masterValues)
            after2 == afterGetDeltas(after1.this, after1.args[2])
            deltas == getDeltas(after1.this, after1.args[2])
            after3 == afterInterpolateFromDeltas(after2.this, after1.args[1],
                                                 deltas)
        IN  /\ call' = [op |-> "interpolateBothPaths", loc |-> loc,
                        masterValues |-> masterValues,
                        args |-> <<loc, masterValues>>,
                        argsAfter |-> <<after3.args[1], after2.args[1]>>,
                        fromMasters |->
                            interpolateFromMasters(this, loc, masterValues),
                        fromDeltas |->
                            interpolateFromDeltas(after2.this, after1.args[1],
                                                  deltas),
                        thrown |-> "none"]
            /\ Becomes(after3.this)
    /\ UNCHANGED <<nextRef, observed>>

\* supportScalar called on its own.
SupportScalar ==
    /\ Idle
    /\ \E location \in ScalarLocations, support \in ScalarSupports :
        /\ call' = [op |-> "supportScalar", location |-> location,
                    support |-> support,
                    ret |-> supportScalar(location, support), thrown |-> "none"]
        /\ UNCHANGED <<model, subModels, nextRef, observed>>

\* interpolateFromValuesAndScalars called on its own.
InterpolateFromValuesAndScalars ==
    /\ Idle
    /\ \E values \in ValueLists, scalars \in ScalarLists :
        /\ call' = [op |-> "interpolateFromValuesAndScalars",
                    values |-> values, scalars |-> scalars,
                    ret |-> interpolateFromValuesAndScalars(values, scalars),
                    thrown |-> "none"]
        /\ UNCHANGED <<model, subModels, nextRef, observed>>

\* normalizeValue, normalizeLocation and piecewiseLinearMap called on
\* their own.
NormalizeValue ==
    /\ Idle
    /\ \E designValue \in DesignValues, axis \in AxisRecords("wght"),
          extrapolate \in BOOLEAN :
        LET r == normalizeValue(designValue, axis, extrapolate)
        IN  call' = [op |-> "normalizeValue", designValue |-> designValue,
                     axis |-> axis, extrapolate |-> extrapolate,
                     ret |-> r.ret, thrown |-> r.thrown]
    /\ UNCHANGED <<model, subModels, nextRef, observed>>

NormalizeLocation ==
    /\ Idle
    /\ \E location \in DesignLocations, axes \in AxisLists :
        LET r == normalizeLocation(location, axes)
        IN  call' = [op |-> "normalizeLocation", location |-> location,
                     axes |-> axes, ret |-> r.ret, thrown |-> r.thrown]
    /\ UNCHANGED <<model, subModels, nextRef, observed>>

PiecewiseLinearMap ==
    /\ Idle
    /\ \E input \in MapInputs, table \in BreakTables :
        call' = [op |-> "piecewiseLinearMap", input |-> input,
                 mapping |-> table,
                 ret |-> piecewiseLinearMap(input, table), thrown |-> "none"]
    /\ UNCHANGED <<model, subModels, nextRef, observed>>

\* seq with the elements at positions i and j exchanged.
Swapped(seq, i, j) ==
    [k \in 1..Len(seq) |->
        IF k = i THEN seq[j] ELSE IF k = j THEN seq[i] ELSE seq[k]]

\* The caller constructs a second model from the same masters with two of
\* them exchanged and the same axisOrder.  Exchanges of two masters
\* generate every permutation of the list.
ConstructSwapped ==
    /\ Idle
    /\ \E i, j \in 1..Len(origLocations) :
        /\ i < j
        /\ LET locs == Swapped(origLocations, i, j)
               m == VariationModel(locs, axisOrder)
           IN  call' = [op |-> "newSwapped", locations |-> locs,
                        axisOrder |-> axisOrder,
                        ret |-> [locations |-> m.locations,
                                 supports |-> m.supports,
                                 deltaWeights |-> m.deltaWeights],
                        thrown |-> "none"]
    /\ UNCHANGED <<model, subModels, nextRef, observed>>

\* What getSubModel(items) returns and leaves behind.  The key is a new
\* array, which takes the reference nextRef; a new submodel takes the
\* reference after it.
getSubModel(items) ==
    IF ~someNull(items)
    THEN [ret |-> [model |-> ThisRef, items |-> items],
          subModels |-> subModels, nextRef |-> nextRef]
    ELSE
    LET key == filterNotNull(items)
        keyRef == nextRef
        cached == MapGet(subModels, keyRef)
        submodel == IF cached = Undefined
                    THEN [ref |-> nextRef + 1]
                            @@ VariationModel(subList(key, origLocations), <<>>)
                    ELSE cached
    IN  [ret |-> [model |-> submodel.ref, items |-> subList(key, items)],
         subModels |-> IF cached = Undefined
                       THEN MapSet(subModels, keyRef, key, submodel)
                       ELSE subModels,
         nextRef |-> IF cached = Undefined THEN nextRef + 2 ELSE nextRef + 1]

GetSubModel ==
    /\ Idle
    /\ Len(observed) < MaxSubModelCalls
    /\ \E items \in ItemLists(Len(origLocations)) :
        LET r == getSubModel(items)
        IN  /\ call' = [op |-> "getSubModel", items |-> items,
                        ret |-> r.ret, thrown |-> "none"]
            /\ subModels' = r.subModels
            /\ nextRef' = r.nextRef
            /\ observed' = Append(observed,
                                  [items |-> items, model |-> r.ret.model])
    /\ UNCHANGED model

Next ==
    \/ Continue
    \/ GetDeltas
    \/ GetScalars
    \/ GetMasterScalars
    \/ InterpolateFromMasters
    \/ InterpolateBothPaths

Spec == Init /\ [][Next]_vars

\* getSubModel on models over one axis.
InitSub == \E locs \in SubMasterLists : Construct(locs, <<"wght">>)

NextSub ==
    \/ Continue
    \/ GetSubModel

SpecSub == InitSub /\ [][NextSub]_vars

\* supportScalar and getScalars on the models of the tests.
InitScalar == \E locs \in TestMasterLists : Construct(locs, <<"wdth", "wght">>)

NextScalar ==
    \/ Continue
    \/ GetScalars
    \/ SupportScalar

SpecScalar == InitScalar /\ [][NextScalar]_vars

\* interpolateFromValuesAndScalars on the models of the tests.
NextValues ==
    \/ Continue
    \/ InterpolateFromValuesAndScalars

SpecValues == InitScalar /\ [][NextValues]_vars

\* The read methods on the models of the tests and of the README example.
InitReads ==
    \E locs \in TestMasterLists \cup { ReadmeMasters } :
        Construct(locs, <<"wdth", "wght">>)

NextReads ==
    \/ Continue
    \/ GetDeltas
    \/ GetScalars
    \/ GetMasterScalars
    \/ InterpolateFromMasters
    \/ InterpolateBothPaths

SpecReads == InitReads /\ [][NextReads]_vars

\* The construction alone, over the masters of the construction runs.
InitBuild ==
    \E locs \in BuildMasterLists, order \in AxisOrders : Construct(locs, order)

NextBuild == Continue

SpecBuild == InitBuild /\ [][NextBuild]_vars

\* A model, and the models of the same masters in another order.
InitOrder ==
    \E locs \in OrderMasterLists, order \in AxisOrders : Construct(locs, order)

NextOrder ==
    \/ Continue
    \/ ConstructSwapped

SpecOrder == InitOrder /\ [][NextOrder]_vars

\* The designspace functions, next to the model of the README example.
InitDesign == Construct(ReadmeMasters, <<"wght">>)

NextDesign ==
    \/ Continue
    \/ NormalizeValue
    \/ NormalizeLocation
    \/ PiecewiseLinearMap

SpecDesign == InitDesign /\ [][NextDesign]_vars

----------------------------------------------------------------------------
(* Claims *)

\* The entries of a location that are not 0, as a set: two locations are
\* equal after sparsification iff these sets are equal.
NonZeroEntries(loc) ==
    { <<loc[i].tag, loc[i].val>> : i \in {n \in 1..Len(loc) : loc[n].val # Zero} }

\* The indices (from 0) of the items that are not missing.
PresentIndices(items) ==
    SelectSeq([i \in 1..Len(items) |-> i - 1], LAMBDA ix : items[ix + 1] # Null)

NoItemMissing(items) == \A i \in 1..Len(items) : items[i] # Null

\* The submodel with the given reference, as stored in the cache.
SubModelAt(ref) ==
    subModels[CHOOSE n \in 1..Len(subModels) : subModels[n].value.ref = ref].value

\* A number in [0, 1].
InUnitInterval(x) == x[1] = "num" /\ 0 <= x[2] /\ x[2] <= x[3]

\* C1: exactness at masters: interpolateFromMasters at the sorted master
\* location k, with one value per master, returns the value given for that
\* master, masterValues[reverseMapping[k]].
C1_ExactAtMasters ==
    (call.op = "interpolateFromMasters"
        /\ Len(call.masterValues) = Len(origLocations))
    => \A k \in 1..Len(locations) :
           call.loc = locations[k]
           => call.ret = At(call.masterValues, reverseMapping[k])

\* C2: after construction mapping and reverseMapping are permutations of
\* 0..N-1 and inverse to each other.
C2_InversePermutations ==
    LET N == Len(origLocations)
    IN  /\ Len(mapping) = N
        /\ Len(reverseMapping) = N
        /\ \A i \in 1..N :
               /\ mapping[i] \in 0..(N - 1)
               /\ reverseMapping[mapping[i] + 1] = i - 1
        /\ \A k \in 1..N :
               /\ reverseMapping[k] \in 0..(N - 1)
               /\ mapping[reverseMapping[k] + 1] = k - 1

\* C3: cache identity: two getSubModel calls whose items have the same
\* present indices return the same model instance.
C3_CacheIdentity ==
    \A a, b \in 1..Len(observed) :
        PresentIndices(observed[a].items) = PresentIndices(observed[b].items)
        => observed[a].model = observed[b].model

\* C4: with an item missing, getSubModel returns a submodel built over the
\* original locations at the present indices, with an empty axisOrder,
\* together with the present items in their order.
C4_SubModelOverPresent ==
    (call.op = "getSubModel" /\ ~NoItemMissing(call.items))
    => LET present == PresentIndices(call.items)
       IN  /\ call.ret.model # ThisRef
           /\ SubModelAt(call.ret.model).origLocations =
                  [n \in 1..Len(present) |-> origLocations[present[n] + 1]]
           /\ SubModelAt(call.ret.model).axisOrder = <<>>
           /\ call.ret.items =
                  [n \in 1..Len(present) |-> call.items[present[n] + 1]]

\* C5: with no item missing, getSubModel returns the receiver and the items
\* as they are, creates no submodel and adds nothing to the cache.
C5_NoMissingReturnsReceiver ==
    [][(call'.op = "getSubModel" /\ call.op = "none" /\ NoItemMissing(call'.items))
        => /\ call'.ret = [model |-> ThisRef, items |-> call'.items]
           /\ subModels' = subModels
           /\ nextRef' = nextRef]_vars

\* A call without a missing item has returned on a model of two masters
\* whose cache already holds a submodel.
C5_Witness ==
    /\ call.op = "getSubModel"
    /\ Len(call.items) = 2
    /\ NoItemMissing(call.items)
    /\ Len(subModels) = 1

\* C6: the constructor fails with DuplicateMaster when two of the locations
\* are equal after dropping the entries of value 0.
C6_DuplicateMasterFails ==
    (call.op = "new"
        /\ \E i, j \in 1..Len(call.locations) :
               i # j /\ NonZeroEntries(call.locations[i]) = NonZeroEntries(call.locations[j]))
    => call.thrown = "DuplicateMaster"

\* C7: getDeltas fails with LengthMismatch when the number of values is
\* not the number of masters.
C7_LengthMismatchFails ==
    (call.op = "getDeltas" /\ Len(call.masterValues) # Len(origLocations))
    => call.thrown = "LengthMismatch"

\* C8: the first sorted location of a constructed model is the empty
\* mapping, and so is its support.
C8_DefaultFirst ==
    Len(origLocations) > 0 => locations[1] = <<>> /\ supports[1] = <<>>

\* C9: every scalar of getScalars at a location of [-1, +1]^A, and every
\* result of supportScalar, lies in [0, 1].
C9_SupportBound ==
    /\ call.op = "getScalars"
       => \A i \in 1..Len(call.ret) : InUnitInterval(call.ret[i])
    /\ call.op = "supportScalar" => InUnitInterval(call.ret)

\* supportScalar has returned a value strictly between 0 and 1 for a
\* support on two axes that both attenuate.
C9_Witness ==
    /\ call.op = "supportScalar"
    /\ Len(call.support) = 2
    /\ call.ret = Num(1, 4)

\* C10: getMasterScalars({}) is, in original master order, 1 at the default
\* master and 0 at every other master.
C10_ScalarsAtDefault ==
    (call.op = "getMasterScalars" /\ call.loc = <<>>)
    => /\ Len(call.ret) = Len(origLocations)
       /\ \A i \in 1..Len(origLocations) :
              call.ret[i] = IF NonZeroEntries(origLocations[i]) = {} THEN One ELSE Zero

\* C11: for every model, location and vector of master values, the sum of
\* master scalar times master value equals the interpolation of the deltas
\* of the same values, and one path gives no contribution exactly when the
\* other does.
C11_PathsAgree ==
    call.op = "interpolateBothPaths" => call.fromMasters = call.fromDeltas

\* The same on the models whose masters are pairwise different and carry no
\* explicit 0.
CleanMasters ==
    /\ \A k \in 1..Len(origLocations) :
          Len(Sparsify(origLocations[k])) = Len(origLocations[k])
    /\ \A k, l \in 1..Len(origLocations) :
          k # l => NonZeroEntries(origLocations[k]) # NonZeroEntries(origLocations[l])

C11_PathsAgreeOnCleanMasters ==
    CleanMasters => C11_PathsAgree

\* The sum of values[i] * scalars[i] over the first n entries whose scalar
\* is not 0.
RECURSIVE SumOverNonZero(_, _, _)
SumOverNonZero(values, scalars, n) ==
    IF n = 0 THEN Zero
    ELSE IF scalars[n] = Zero THEN SumOverNonZero(values, scalars, n - 1)
    ELSE Add(SumOverNonZero(values, scalars, n - 1), Mul(values[n], scalars[n]))

\* C12: on values and scalars of equal length, interpolateFromValuesAndScalars
\* returns null iff every scalar is 0, and otherwise the sum of
\* value * scalar over the entries whose scalar is not 0.
C12_NullIffAllZero ==
    (call.op = "interpolateFromValuesAndScalars"
        /\ Len(call.values) = Len(call.scalars)) =>
        /\ call.ret = Null <=>
                \A i \in 1..Len(call.scalars) : call.scalars[i] = Zero
        /\ call.ret # Null =>
                call.ret = SumOverNonZero(call.values, call.scalars,
                                          Len(call.scalars))

\* Two scalars that are not 0 whose contributions cancel: the result is the
\* number 0, not null.
C12_Witness ==
    /\ call.op = "interpolateFromValuesAndScalars"
    /\ Len(call.values) = Len(call.scalars)
    /\ \E i, j \in 1..Len(call.scalars) :
          /\ i # j
          /\ call.values[i] # Zero /\ call.scalars[i] # Zero
          /\ call.values[j] # Zero /\ call.scalars[j] # Zero
    /\ call.ret = Zero

ReadOps ==
    {"getDeltas", "getScalars", "getMasterScalars", "interpolateFromMasters",
     "interpolateBothPaths"}

\* C13: a call of getDeltas, getScalars, getMasterScalars or an interpolate
\* method leaves origLocations, the sorted locations, supports,
\* deltaWeights, mapping, reverseMapping and the submodel cache as they
\* were, and the caller's argument arrays as they were passed.
C13_ReadsKeepModel ==
    [][call'.op \in ReadOps =>
         /\ model' = model
         /\ subModels' = subModels
         /\ call'.argsAfter = call'.args]_vars

\* A getDeltas call on three masters whose deltas differ from the values
\* passed in.
C13_Witness ==
    /\ call.op = "getDeltas"
    /\ Len(locations) = 3
    /\ Len(call.masterValues) = 3
    /\ call.ret # call.masterValues
    /\ call.argsAfter = <<call.masterValues>>
    /\ subModels = <<>>

\* What the claim says of one normalized value ret of design value v on an
\* axis with min <= default <= max.
NormalizedAsClaimed(v, axis, ret) ==
    /\ Le(Number(-1), ret) /\ Le(ret, One)
    /\ Eq(v, axis.default) => ret = Zero
    /\ (Le(v, axis.min) /\ Lt(axis.min, axis.default)) => ret = Number(-1)
    /\ (Le(axis.max, v) /\ Lt(axis.default, axis.max)) => ret = One

ValidAxis(axis) == Le(axis.min, axis.default) /\ Le(axis.default, axis.max)

\* C14: on an axis with min <= default <= max, normalizeValue without
\* extrapolation returns a value in [-1, +1] that is 0 at the default, -1 at
\* and below min when min < default, +1 at and above max when
\* default < max; normalizeLocation returns one such value per axis, and 0
\* for an axis that the location does not mention.
C14_Normalized ==
    /\ (call.op = "normalizeValue" /\ ~call.extrapolate /\ ValidAxis(call.axis)) =>
          /\ call.thrown = "none"
          /\ NormalizedAsClaimed(call.designValue, call.axis, call.ret)
    /\ (call.op = "normalizeLocation"
            /\ \A i \in 1..Len(call.axes) : ValidAxis(call.axes[i])) =>
          /\ call.thrown = "none"
          /\ Len(call.ret) = Len(call.axes)
          /\ \A i \in 1..Len(call.axes) :
                LET axis == call.axes[i]
                IN  /\ call.ret[i].tag = axis.tag
                    /\ IF HasKey(call.location, axis.tag)
                       THEN NormalizedAsClaimed(Get(call.location, axis.tag),
                                                axis, call.ret[i].val)
                       ELSE call.ret[i].val = Zero

\* normalizeLocation on two axes of a location that mentions only wght,
\* above the maximum of its axis.
C14_Witness ==
    /\ call.op = "normalizeLocation"
    /\ call.thrown = "none"
    /\ Len(call.axes) = 2
    /\ ~HasKey(call.location, "wdth")
    /\ Lt(call.axes[2].min, call.axes[2].default)
    /\ HasKey(call.location, "wght")
    /\ Lt(call.axes[1].max, Get(call.location, "wght"))
    /\ call.ret = <<[tag |-> "wght", val |-> One], [tag |-> "wdth", val |-> Zero]>>

NonDecreasing(table) ==
    \A i \in 1..(Len(table) - 1) : Le(table[i][1], table[i + 1][1])

StrictlyIncreasing(table) ==
    \A i \in 1..(Len(table) - 1) : Lt(table[i][1], table[i + 1][1])

\* Every breakpoint whose 'from' is the input maps to its 'to'.
BreakpointsHit ==
    \A i \in 1..Len(call.mapping) :
        call.mapping[i][1] = call.input => call.ret = call.mapping[i][2]

\* Inputs at or below the first 'from' give the first 'to', inputs at or
\* above the last 'from' give the last 'to'.
EndsClamped ==
    /\ Le(call.input, call.mapping[1][1]) => call.ret = call.mapping[1][2]
    /\ Le(call.mapping[Len(call.mapping)][1], call.input) =>
          call.ret = call.mapping[Len(call.mapping)][2]

EmptyTableIsIdentity ==
    (call.op = "piecewiseLinearMap" /\ call.mapping = <<>>) =>
        call.ret = call.input

\* C15 as stated: on a non-empty break table whose 'from' column is
\* non-decreasing, piecewiseLinearMap maps the 'from' of every breakpoint
\* to its 'to' and clamps at both ends; on the empty table it returns the
\* input.
C15_BreakpointsExact ==
    /\ (call.op = "piecewiseLinearMap" /\ call.mapping # <<>>
            /\ NonDecreasing(call.mapping)) =>
          BreakpointsHit /\ EndsClamped
    /\ EmptyTableIsIdentity

\* C15 amended: on a non-empty break table whose 'from' column is strictly
\* increasing, piecewiseLinearMap maps the 'from' of every breakpoint to
\* its 'to' and clamps at both ends; on the empty table it returns the
\* input.
C15_BreakpointsExactWhenStrict ==
    /\ (call.op = "piecewiseLinearMap" /\ call.mapping # <<>>
            /\ StrictlyIncreasing(call.mapping)) =>
          BreakpointsHit /\ EndsClamped
    /\ EmptyTableIsIdentity

\* The input is the 'from' of the middle breakpoint of a strictly
\* increasing table of three.
C15_Witness ==
    /\ call.op = "piecewiseLinearMap"
    /\ Len(call.mapping) = 3
    /\ StrictlyIncreasing(call.mapping)
    /\ call.input = call.mapping[2][1]
    /\ call.ret = call.mapping[2][2]
    /\ call.ret # call.mapping[1][2]
    /\ call.ret # call.mapping[3][2]

\* The values that the single-axis masters give to an axis, and 0.
OnPointValues(tag) ==
    { Zero } \cup { locations[k][1].val :
                      k \in { n \in 1..Len(locations) :
                                Len(locations[n]) = 1 /\ locations[n][1].tag = tag } }

OnPointCount(loc) ==
    Cardinality({ i \in 1..Len(loc) : loc[i].val \in OnPointValues(loc[i].tag) })

\* The sort key of a sparsified location as one sequence of numbers: the
\* number of its axes, minus the number of its on-point axes, the
\* axisOrder index of each axis of its ordered axis list, the tags of that
\* list, and sign and absolute value axis by axis.
SortKey(loc) ==
    LET axes == orderedAxesOf(axisOrder, loc)
        n == Len(axes)
        val(i) == Get(loc, axes[i])
    IN  <<Number(Len(loc)), Number(0 - OnPointCount(loc))>>
        \o [i \in 1..n |-> Number(axisOrdersOf(axisOrder, axes)[i])]
        \o [i \in 1..n |-> Number(TagIndex(axes[i]))]
        \o [i \in 1..(2 * n) |->
              IF i % 2 = 1
              THEN (IF Lt(val((i + 1) \div 2), Zero) THEN Number(-1)
                    ELSE IF Lt(Zero, val((i + 1) \div 2)) THEN One ELSE Zero)
              ELSE MathAbs(val(i \div 2))]

\* k1 <= k2 lexicographically; a proper prefix is smaller.
LexLe(k1, k2) ==
    \/ \E i \in 1..IntMin(Len(k1), Len(k2)) :
          /\ Lt(k1[i], k2[i])
          /\ \A j \in 1..(i - 1) : k1[j] = k2[j]
    \/ /\ Len(k1) <= Len(k2)
       /\ \A j \in 1..Len(k1) : k1[j] = k2[j]

Occurrences(seq, x) == Cardinality({ i \in 1..Len(seq) : seq[i] = x })

\* C16: sortedLocations holds the sparsified input locations, each as often
\* as the input has it, and every adjacent pair is in the order of the
\* lexicographic sort key.
C16_CanonicalSort ==
    LET sparse == [k \in 1..Len(origLocations) |-> Sparsify(origLocations[k])]
    IN  /\ Len(locations) = Len(origLocations)
        /\ \A k \in 1..Len(sparse) :
              Occurrences(locations, sparse[k]) = Occurrences(sparse, sparse[k])
        /\ \A i \in 1..(Len(locations) - 1) :
              LexLe(SortKey(locations[i]), SortKey(locations[i + 1]))

\* Two masters on two axes, the one with more on-point axes first although
\* its value on the first axis is the greater.
C16_Witness ==
    /\ call.op = "new"
    /\ \E i \in 1..(Len(locations) - 1) :
          /\ Len(locations[i]) = 2 /\ Len(locations[i + 1]) = 2
          /\ OnPointCount(locations[i]) > OnPointCount(locations[i + 1])
          /\ Lt(MathAbs(Get(locations[i + 1], "wght")),
                MathAbs(Get(locations[i], "wght")))

\* The factor that one axis of a support contributes at value v: 1 when the
\* axis is skipped, 0 outside the open interval, the ratio otherwise.
AxisFactor(v, t) ==
    IF \/ Eq(t.peak, Zero)
       \/ Lt(t.peak, t.lower) \/ Lt(t.upper, t.peak)
       \/ (Lt(t.lower, Zero) /\ Lt(Zero, t.upper))
       \/ Eq(v, t.peak)
    THEN One
    ELSE IF Le(v, t.lower) \/ Le(t.upper, v) THEN Zero
    ELSE IF Lt(v, t.peak)
         THEN Div(Sub(v, t.lower), Sub(t.peak, t.lower))
         ELSE Div(Sub(v, t.upper), Sub(t.peak, t.upper))

ValueAt(location, tag) ==
    IF HasKey(location, tag) THEN Get(location, tag) ELSE Zero

RECURSIVE FactorProduct(_, _, _)
FactorProduct(location, support, n) ==
    IF n = 0 THEN One
    ELSE Mul(FactorProduct(location, support, n - 1),
             AxisFactor(ValueAt(location, support[n].tag), support[n]))

Reversed(seq) == [i \in 1..Len(seq) |-> seq[Len(seq) + 1 - i]]

\* C17: supportScalar is the product of the factors of the axes of the
\* support, 0 as soon as one axis that is not skipped has its value outside
\* the open interval, 1 on the empty support, and the same when the axes
\* are visited in the opposite order.
C17_ProductOfFactors ==
    call.op = "supportScalar" =>
        /\ call.ret = FactorProduct(call.location, call.support,
                                    Len(call.support))
        /\ call.support = <<>> => call.ret = One
        /\ (\E i \in 1..Len(call.support) :
                AxisFactor(ValueAt(call.location, call.support[i].tag),
                           call.support[i]) = Zero) => call.ret = Zero
        /\ supportScalar(call.location, Reversed(call.support)) = call.ret

\* A support on two axes: wght is astride 0 and skipped, wdth contributes
\* the ratio 1/2.
C17_Witness ==
    /\ call.op = "supportScalar"
    /\ Len(call.support) = 2
    /\ Lt(call.support[1].lower, Zero) /\ Lt(Zero, call.support[1].upper)
    /\ ~Eq(Get(call.location, "wght"), call.support[1].peak)
    /\ Lt(call.support[2].peak, Get(call.location, "wdth"))
    /\ call.ret = Num(1, 2)

\* The keys of row i of deltaWeights (rows and keys count from 0).
RowKeys(i) == { deltaWeights[i + 1][n].j : n \in 1..Len(deltaWeights[i + 1]) }

\* C18: deltaWeights has one row per sorted master; row i has the key j
\* exactly when j < i and supportScalar(sortedLocations[i], supports[j]) is
\* not 0, and stores that scalar under it, once.
C18_DeltaWeightRows ==
    /\ Len(deltaWeights) = Len(locations)
    /\ \A i \in 0..(Len(locations) - 1) :
          /\ \A j \in 0..(Len(locations) - 1) :
                j \in RowKeys(i) <=>
                    (j < i /\ supportScalar(locations[i + 1], supports[j + 1]) # Zero)
          /\ RowKeys(i) \subseteq 0..(i - 1)
          /\ Cardinality(RowKeys(i)) = Len(deltaWeights[i + 1])
          /\ \A n \in 1..Len(deltaWeights[i + 1]) :
                LET e == deltaWeights[i + 1][n]
                IN  e.w = supportScalar(locations[i + 1], supports[e.j + 1])

\* A row that leaves out an earlier master and stores a weight that is
\* neither 0 nor 1.
C18_Witness ==
    /\ call.op = "new"
    /\ \E i \in 1..(Len(locations) - 1) :
          /\ Len(deltaWeights[i + 1]) < i
          /\ \E n \in 1..Len(deltaWeights[i + 1]) :
                /\ deltaWeights[i + 1][n].w # One
                /\ deltaWeights[i + 1][n].w # Zero

\* The box-split steps of the construction.  Step (i, j), j < i, refines the
\* region of sorted master i, as the steps before it have left it, against
\* the finished region of master j.
SplitSteps == { <<i, j>> \in (1..Len(locations)) \X (1..Len(locations)) : j < i }

InitialRegion(i) == locationsToRegions(locations)[i]

RegionBefore(i, j) == refineLoop(InitialRegion(i), SubSeq(supports, 1, j - 1), 1)

RegionAfter(i, j) == boxSplit(RegionBefore(i, j), supports[j])

Triple(region, tag) == region[KeyPos(region, tag)]

\* j is relevant to i: same axes, and every peak of j is the peak of i or
\* strictly inside the current interval of i.
RelevantAsClaimed(region, prev) ==
    /\ KeySet(prev) = KeySet(region)
    /\ \A tag \in KeySet(region) :
          \/ Triple(prev, tag).peak = Triple(region, tag).peak
          \/ /\ Lt(Triple(region, tag).lower, Triple(prev, tag).peak)
             /\ Lt(Triple(prev, tag).peak, Triple(region, tag).upper)

\* The axes on which the box can be split, and the ratio of each.
Splittable(region, prev) ==
    { tag \in KeySet(prev) : Triple(prev, tag).peak # Triple(region, tag).peak }

SplitRatio(region, prev, tag) ==
    LET val == Triple(prev, tag).peak
        t == Triple(region, tag)
    IN  Div(Sub(val, t.peak),
            Sub(IF Lt(val, t.peak) THEN t.lower ELSE t.upper, t.peak))

GreatestRatioAxes(region, prev) ==
    { tag \in Splittable(region, prev) :
        \A other \in Splittable(region, prev) :
            Le(SplitRatio(region, prev, other), SplitRatio(region, prev, tag)) }

\* C19: a box-split step against an irrelevant region, or one with an axis
\* that region i lacks, changes nothing; a step against a relevant region
\* moves, on exactly the axes of greatest ratio, the lower bound (peak of j
\* below the peak of i) or the upper bound (above) to the peak of j, and
\* keeps every other bound.
C19_BoxSplitStep ==
    \A step \in SplitSteps :
        LET before == RegionBefore(step[1], step[2])
            after == RegionAfter(step[1], step[2])
            prev == supports[step[2]]
        IN  IF ~(KeySet(prev) \subseteq KeySet(before))
               \/ ~RelevantAsClaimed(before, prev)
            THEN after = before
            ELSE /\ KeySet(after) = KeySet(before)
                 /\ \A tag \in KeySet(before) :
                       LET t == Triple(before, tag)
                           val == Triple(prev, tag).peak
                       IN  IF tag \in GreatestRatioAxes(before, prev)
                           THEN Triple(after, tag) =
                                    IF Lt(val, t.peak)
                                    THEN [t EXCEPT !.lower = val]
                                    ELSE [t EXCEPT !.upper = val]
                           ELSE Triple(after, tag) = t

\* A step on two axes whose ratios differ: the bound of one axis moves, the
\* other axis, though it could be split, keeps its bounds.
C19_Witness ==
    /\ call.op = "new"
    /\ \E step \in SplitSteps :
          LET before == RegionBefore(step[1], step[2])
              after == RegionAfter(step[1], step[2])
              prev == supports[step[2]]
          IN  /\ KeySet(prev) \subseteq KeySet(before)
              /\ RelevantAsClaimed(before, prev)
              /\ Cardinality(Splittable(before, prev)) = 2
              /\ Cardinality(GreatestRatioAxes(before, prev)) = 1
              /\ after # before

\* C20: supports[i] has exactly the axes of sortedLocations[i]; on each axis
\* lower <= peak <= upper with the master's coordinate as peak, lower >= 0
\* for a positive and upper <= 0 for a negative peak; and no box-split step
\* lowers a lower bound or raises an upper bound.
C20_SupportIntervals ==
    /\ Len(supports) = Len(locations)
    /\ \A i \in 1..Len(locations) :
          /\ Len(supports[i]) = Len(locations[i])
          /\ KeySet(supports[i]) = { locations[i][n].tag : n \in 1..Len(locations[i]) }
          /\ \A n \in 1..Len(supports[i]) :
                LET t == supports[i][n]
                IN  /\ t.peak = Get(locations[i], t.tag)
                    /\ Le(t.lower, t.peak) /\ Le(t.peak, t.upper)
                    /\ Lt(Zero, t.peak) => Le(Zero, t.lower)
                    /\ Lt(t.peak, Zero) => Le(t.upper, Zero)
    /\ \A step \in SplitSteps :
          LET before == RegionBefore(step[1], step[2])
              after == RegionAfter(step[1], step[2])
          IN  /\ KeySet(after) = KeySet(before)
              /\ \A tag \in KeySet(before) :
                    /\ Le(Triple(before, tag).lower, Triple(after, tag).lower)
                    /\ Le(Triple(after, tag).upper, Triple(before, tag).upper)
    /\ \A i \in 1..Len(locations) :
          refineLoop(InitialRegion(i), SubSeq(supports, 1, i - 1), 1) = supports[i]

\* Masters on both sides of 0 on wght, and a support that the splitting has
\* made narrower than its initial region.
C20_Witness ==
    /\ call.op = "new"
    /\ \E i, k \in 1..Len(locations) :
          /\ Lt(Get(locations[i], "wght"), Zero)
          /\ Lt(Zero, Get(locations[k], "wght"))
    /\ \E i \in 1..Len(locations) : supports[i] # InitialRegion(i)

\* The masters are pairwise different locations: no two have the same
\* entries other than 0.
DistinctMasters ==
    \A k, l \in 1..Len(origLocations) :
        k # l => NonZeroEntries(origLocations[k]) # NonZeroEntries(origLocations[l])

\* C21: in a model built from pairwise different master locations, the
\* support of a sorted master is 0 at the location of every earlier master
\* and 1 at its own location.
C21_Triangular ==
    DistinctMasters =>
        \A i \in 1..Len(locations) :
            /\ supportScalar(locations[i], supports[i]) = One
            /\ \A k \in 1..(i - 1) :
                  supportScalar(locations[k], supports[i]) = Zero

\* Three different masters, the last on the axes of an earlier one that
\* shares one of its coordinates, with its box split against it.
C21_Witness ==
    /\ call.op = "new"
    /\ DistinctMasters
    /\ Len(locations) = 3
    /\ \E k \in 1..2 :
          /\ Len(locations[3]) = 2
          /\ KeySet(supports[k]) = KeySet(supports[3])
          /\ \E tag \in KeySet(supports[3]) :
                Get(locations[k], tag) = Get(locations[3], tag)
    /\ supports[3] # InitialRegion(3)

\* The sort comparator on two sorted locations of the model.
Compared(a, b) ==
    sortFunc(axisPointsOf(locations), axisOrder, locations[a], locations[b])

\* C22: a model built from pairwise different master locations and the
\* model built from the same masters in another order, with the same
\* axisOrder, have the same sortedLocations, supports and deltaWeights; the
\* sort comparator is 0 only on locations that are equal after
\* sparsification.
C22_OrderIndependent ==
    /\ (call.op = "newSwapped" /\ DistinctMasters) =>
          /\ call.ret.locations = locations
          /\ call.ret.supports = supports
          /\ call.ret.deltaWeights = deltaWeights
    /\ \A a, b \in 1..Len(locations) :
          Compared(a, b) = Zero =>
              NonZeroEntries(locations[a]) = NonZeroEntries(locations[b])

\* Three different masters of which the exchanged two are on the same
\* axes, so that only their values order them.
C22_Witness ==
    /\ call.op = "newSwapped"
    /\ DistinctMasters
    /\ Len(locations) = 3
    /\ call.locations # origLocations
    /\ \E a, b \in 1..3 :
          /\ a # b
          /\ call.locations[a] = origLocations[b]
          /\ call.locations[b] = origLocations[a]
          /\ Len(origLocations[a]) = 2
          /\ KeySet(Sparsify(origLocations[a])) = KeySet(Sparsify(origLocations[b]))
    /\ call.ret.locations = locations
    /\ locations # [k \in 1..3 |-> Sparsify(origLocations[k])]

====
